---- MODULE Spec2Model ----
(***************************************************************************)
(* Model of src/src/worker.ts: the Cloudflare Worker `fetch` entry point   *)
(* of the Slack MCP server, its SlackClient and the tool handler it        *)
(* registers.  A request is served in the steps the code's awaits cut it   *)
(* into: entry up to `await request.text()`, then decode / classify /      *)
(* dispatch up to the backend `await fetch(...)`, then one step per        *)
(* backend reply.                                                          *)
(***************************************************************************)
EXTENDS Integers, Sequences, FiniteSets, TLC

(***************************************************************************)
(* JavaScript values.  Every value is a record tagged by its type; an      *)
(* object carries a function from its own property names to values, so a   *)
(* property that is absent is simply not in the domain.                    *)
(***************************************************************************)
Undef == [t |-> "undefined"]

Null == [t |-> "null"]

Str(s) == [t |-> "string", s |-> s]

\* a string built by a template literal or a fixed message, as its words
Txt(w) == [t |-> "string", w |-> w]

Num(n) == [t |-> "number", n |-> n]

Bool(b) == [t |-> "boolean", b |-> b]

Obj(f) == [t |-> "object", f |-> f]

Arr(a) == [t |-> "array", a |-> a]

\* the text JSON.stringify produces for the value v
Json(v) == [t |-> "string", json |-> v]

\* an object literal from a list of <<key, value>> pairs
Lit(pairs) ==
  Obj([k \in {pairs[i][1] : i \in DOMAIN pairs} |->
         LET i == CHOOSE j \in DOMAIN pairs : pairs[j][1] = k IN pairs[i][2]])

\* an object holding only the listed properties whose value is given
Sparse(pairs) ==
  Lit(SelectSeq(pairs, LAMBDA p : p[2] # Undef))

\* v.k for a value v that is neither null nor undefined
Get(v, k) ==
  IF v.t = "object" /\ k \in DOMAIN v.f THEN v.f[k] ELSE Undef

\* v?.k
OptGet(v, k) ==
  IF v \in {Undef, Null} THEN Undef ELSE Get(v, k)

\* JavaScript truthiness: what !v, v || w and v && w test
Truthy(v) ==
  CASE v.t = "undefined" -> FALSE
    [] v.t = "null" -> FALSE
    [] v.t = "boolean" -> v.b
    [] v.t = "number" -> v.n # 0
    [] v.t = "string" -> v # Str("")
    [] OTHER -> TRUE

\* v || w
Or(v, w) == IF Truthy(v) THEN v ELSE w

\* the parameter default `p = d` of a function signature
Default(v, d) == IF v = Undef THEN d ELSE v

(***************************************************************************)
(* JSON.stringify and JSON.parse.  The text of a value is Json(c) with c   *)
(* the value as JSON can carry it: a property whose value is undefined is  *)
(* dropped from an object and becomes null in an array.  A request text is *)
(* either such a text or one JSON.parse rejects.                           *)
(***************************************************************************)
RECURSIVE Clean(_)
Clean(v) ==
  CASE v.t = "object" ->
         Obj([k \in {j \in DOMAIN v.f : v.f[j] # Undef} |-> Clean(v.f[k])])
    [] v.t = "array" ->
         Arr([i \in DOMAIN v.a |-> IF v.a[i] = Undef THEN Null ELSE Clean(v.a[i])])
    [] OTHER -> v

Stringify(v) == Json(Clean(v))

\* whether JSON.parse(text) returns (TRUE) or throws a SyntaxError (FALSE)
Parses(text) == "json" \in DOMAIN text

Parse(text) == text.json

(***************************************************************************)
(* The Response objects fetch returns.                                     *)
(***************************************************************************)
CorsHeaders ==
  {"Access-Control-Allow-Origin", "Access-Control-Allow-Methods",
   "Access-Control-Allow-Headers"}

JsonHeaders == CorsHeaders \cup {"Content-Type"}

PreflightHeaders == CorsHeaders \cup {"Access-Control-Max-Age"}

StatusOk == 200

StatusBadRequest == 400

StatusServerError == 500

NoResponse == [status |-> 0, headers |-> {}, body |-> Undef]

\* new Response(body, {status, headers})
Response(status, headers, body) ==
  [status |-> status, headers |-> headers, body |-> body]

(***************************************************************************)
(* The tool registry, in declaration order, with the parameters each       *)
(* descriptor's inputSchema marks required.                                *)
(***************************************************************************)
Tools ==
  << "slack_list_channels", "slack_post_message", "slack_reply_to_thread",
     "slack_add_reaction", "slack_get_channel_history",
     "slack_get_thread_replies", "slack_get_users", "slack_get_user_profile" >>

ToolNames == {Tools[i] : i \in DOMAIN Tools}

\* inputSchema.required of the descriptor named `name`, in its order
RequiredList(name) ==
  CASE name = "slack_post_message" -> <<"channel_id", "text">>
    [] name = "slack_reply_to_thread" -> <<"channel_id", "thread_ts", "text">>
    [] name = "slack_add_reaction" -> <<"channel_id", "timestamp", "reaction">>
    [] name = "slack_get_channel_history" -> <<"channel_id">>
    [] name = "slack_get_thread_replies" -> <<"channel_id", "thread_ts">>
    [] name = "slack_get_user_profile" -> <<"user_id">>
    [] OTHER -> <<>>

Required(name) == {RequiredList(name)[i] : i \in DOMAIN RequiredList(name)}

\* tools: [listChannelsTool, ...], each descriptor by its name and required list
ToolList ==
  Arr([i \in DOMAIN Tools |->
         Lit(<< <<"name", Str(Tools[i])>>,
                <<"required",
                  Arr([j \in DOMAIN RequiredList(Tools[i]) |->
                         Str(RequiredList(Tools[i])[j])])>> >>)])

(***************************************************************************)
(* SlackClient.  Each method is modelled by the backend request it sends;  *)
(* it returns the decoded reply unchanged (`return data`), so the reply is *)
(* the method's result.  A request is [api, params].                       *)
(***************************************************************************)
DefaultListLimit == 100

MaxListLimit == 200

DefaultHistoryLimit == 10

\* n.toString()
NumToString(v) == [t |-> "string", digits |-> v.n]

\* Math.min(limit, 200)
MinLimit(v) == IF v.n < MaxListLimit THEN v ELSE Num(MaxListLimit)

ApiCall(api, params) == [api |-> api, params |-> params]

\* predefinedChannelIds.split(",").map(id => id.trim()): a comma-separated
\* string is carried as the list of its (trimmed) items
Csv(items) == [t |-> "string", csv |-> items]

SplitIds(v) == v.csv

\* getChannels, no pre-approved ids: the paginated conversations.list call
conversationsList(limitArg, cursor, envArg) ==
  LET limit == Default(limitArg, Num(DefaultListLimit)) IN
  ApiCall("conversations.list",
          Sparse(<< <<"types", Str("public_channel")>>,
                    <<"exclude_archived", Str("true")>>,
                    <<"limit", NumToString(MinLimit(limit))>>,
                    <<"team_id", Or(OptGet(envArg, "SLACK_TEAM_ID"), Str(""))>>,
                    <<"cursor", IF Truthy(cursor) THEN cursor ELSE Undef>> >>))

\* getChannels, pre-approved ids: the lookup of one channel
conversationsInfo(channelId) ==
  ApiCall("conversations.info", Lit(<< <<"channel", channelId>> >>))

\* getChannels: which of its two paths the call takes, and the first request
getChannels(limitArg, cursor, envArg) ==
  LET predefinedChannelIds == OptGet(envArg, "SLACK_CHANNEL_IDS") IN
  IF ~Truthy(predefinedChannelIds)
  THEN [kind |-> "call", req |-> conversationsList(limitArg, cursor, envArg)]
  ELSE [kind |-> "lookups", ids |-> SplitIds(predefinedChannelIds)]

postMessage(channel_id, text) ==
  ApiCall("chat.postMessage",
          Clean(Lit(<< <<"channel", channel_id>>, <<"text", text>> >>)))

postReply(channel_id, thread_ts, text) ==
  ApiCall("chat.postMessage",
          Clean(Lit(<< <<"channel", channel_id>>, <<"thread_ts", thread_ts>>,
                       <<"text", text>> >>)))

addReaction(channel_id, timestamp, reaction) ==
  ApiCall("reactions.add",
          Clean(Lit(<< <<"channel", channel_id>>, <<"timestamp", timestamp>>,
                       <<"name", reaction>> >>)))

getChannelHistory(channel_id, limitArg) ==
  LET limit == Default(limitArg, Num(DefaultHistoryLimit)) IN
  ApiCall("conversations.history",
          Lit(<< <<"channel", channel_id>>, <<"limit", NumToString(limit)>> >>))

getThreadReplies(channel_id, thread_ts) ==
  ApiCall("conversations.replies",
          Lit(<< <<"channel", channel_id>>, <<"ts", thread_ts>> >>))

\* getUsers reads process.env, not the Worker's env: with no `process` global
\* the read throws a ReferenceError before any request is sent
getUsers(limitArg, cursor, processEnv) ==
  LET limit == Default(limitArg, Num(DefaultListLimit)) IN
  IF processEnv = Undef
  THEN [kind |-> "throw", error |-> Txt(<<"process is not defined">>)]
  ELSE [kind |-> "call",
        req |-> ApiCall("users.list",
                  Sparse(<< <<"limit", NumToString(MinLimit(limit))>>,
                            <<"team_id", Get(processEnv, "SLACK_TEAM_ID")>>,
                            <<"cursor", IF Truthy(cursor) THEN cursor ELSE Undef>> >>))]

getUserProfile(user_id) ==
  ApiCall("users.profile.get",
          Lit(<< <<"user", user_id>>, <<"include_labels", Str("true")>> >>))

(***************************************************************************)
(* The tool switch of fetch's CallTool branch: for a tool name and its     *)
(* arguments, either the Error it throws or the SlackClient call it makes. *)
(* `envArg` is what the switch passes to getChannels as `env`.             *)
(***************************************************************************)
Throw(words) == [kind |-> "throw", error |-> Txt(words)]

\* the template literal `${prefix} ${v}`
Template(prefix, v) == [t |-> "string", prefix |-> prefix, of |-> v]

Call(req) == [kind |-> "call", req |-> req]

CaseListChannels(args, envArg) ==
  getChannels(Get(args, "limit"), Get(args, "cursor"), envArg)

\* the required-argument test forgetting `text`
CasePostMessage_ChannelOnly(args) ==
  IF ~Truthy(Get(args, "channel_id"))
  THEN Throw(<<"Missing required arguments:", "channel_id", "and", "text">>)
  ELSE Call(postMessage(Get(args, "channel_id"), Get(args, "text")))

CasePostMessage(args) ==
  IF ~Truthy(Get(args, "channel_id")) \/ ~Truthy(Get(args, "text"))
  THEN Throw(<<"Missing required arguments:", "channel_id", "and", "text">>)
  ELSE Call(postMessage(Get(args, "channel_id"), Get(args, "text")))

CaseReplyToThread(args) ==
  IF \/ ~Truthy(Get(args, "channel_id"))
     \/ ~Truthy(Get(args, "thread_ts"))
     \/ ~Truthy(Get(args, "text"))
  THEN Throw(<<"Missing required arguments:", "channel_id", ",", "thread_ts",
               ", and", "text">>)
  ELSE Call(postReply(Get(args, "channel_id"), Get(args, "thread_ts"),
                      Get(args, "text")))

CaseAddReaction(args) ==
  IF \/ ~Truthy(Get(args, "channel_id"))
     \/ ~Truthy(Get(args, "timestamp"))
     \/ ~Truthy(Get(args, "reaction"))
  THEN Throw(<<"Missing required arguments:", "channel_id", ",", "timestamp",
               ", and", "reaction">>)
  ELSE Call(addReaction(Get(args, "channel_id"), Get(args, "timestamp"),
                        Get(args, "reaction")))

CaseGetChannelHistory(args) ==
  IF ~Truthy(Get(args, "channel_id"))
  THEN Throw(<<"Missing required argument:", "channel_id">>)
  ELSE Call(getChannelHistory(Get(args, "channel_id"), Get(args, "limit")))

CaseGetThreadReplies(args) ==
  IF ~Truthy(Get(args, "channel_id")) \/ ~Truthy(Get(args, "thread_ts"))
  THEN Throw(<<"Missing required arguments:", "channel_id", "and", "thread_ts">>)
  ELSE Call(getThreadReplies(Get(args, "channel_id"), Get(args, "thread_ts")))

CaseGetUsers(args, processEnv) ==
  getUsers(Get(args, "limit"), Get(args, "cursor"), processEnv)

CaseGetUserProfile(args) ==
  IF ~Truthy(Get(args, "user_id"))
  THEN Throw(<<"Missing required argument:", "user_id">>)
  ELSE Call(getUserProfile(Get(args, "user_id")))

CaseDefault(name) ==
  [kind |-> "throw", error |-> Template("Unknown tool:", name)]

ToolSwitch(name, args, envArg, processEnv) ==
  CASE name = Str("slack_list_channels") -> CaseListChannels(args, envArg)
    [] name = Str("slack_post_message") -> CasePostMessage(args)
    [] name = Str("slack_reply_to_thread") -> CaseReplyToThread(args)
    [] name = Str("slack_add_reaction") -> CaseAddReaction(args)
    [] name = Str("slack_get_channel_history") -> CaseGetChannelHistory(args)
    [] name = Str("slack_get_thread_replies") -> CaseGetThreadReplies(args)
    [] name = Str("slack_get_users") -> CaseGetUsers(args, processEnv)
    [] name = Str("slack_get_user_profile") -> CaseGetUserProfile(args)
    [] OTHER -> CaseDefault(name)

(***************************************************************************)
(* fetch: the pure parts.                                                  *)
(***************************************************************************)
EmptyObj == Lit(<<>>)

\* the environment check looking at the bot token only
EnvMissing_TokenOnly(e) ==
  ~Truthy(Get(e, "SLACK_BOT_TOKEN"))

\* if (!botToken || !teamId)
EnvMissing(e) ==
  ~Truthy(Get(e, "SLACK_BOT_TOKEN")) \/ ~Truthy(Get(e, "SLACK_TEAM_ID"))

ConfigErrorResponse(e) ==
  Response(StatusServerError, JsonHeaders,
    Stringify(Lit(<<
      <<"error", Txt(<<"Missing required environment variables:",
                       "SLACK_BOT_TOKEN", "and", "SLACK_TEAM_ID">>)>>,
      <<"debug", Lit(<<
         <<"hasToken", Bool(Truthy(Get(e, "SLACK_BOT_TOKEN")))>>,
         <<"hasTeamId", Bool(Truthy(Get(e, "SLACK_TEAM_ID")))>>,
         <<"hasChannelIds", Bool(Truthy(Get(e, "SLACK_CHANNEL_IDS")))>> >>)>> >>)))

InvalidJsonResponse ==
  Response(StatusBadRequest, JsonHeaders,
    Stringify(Lit(<< <<"error", Txt(<<"Invalid JSON in request">>)>> >>)))

\* the outer catch
InvalidFormatResponse ==
  Response(StatusBadRequest, JsonHeaders,
    Stringify(Lit(<< <<"error", Txt(<<"Invalid request format">>)>> >>)))

\* method.startsWith('notifications/'), over the method strings of the model
StartsWithNotifications(v) ==
  v \in {Str("notifications/initialized"), Str("notifications/cancelled")}

\* the four classification lines throw a TypeError when requestBody is null
\* (requestBody.type) or when method is truthy and has no startsWith
ClassifyThrows(b) ==
  \/ b = Null
  \/ Truthy(Get(b, "method")) /\ Get(b, "method").t # "string"

isCallTool(b) ==
  Get(b, "type") = Str("call_tool") \/ Get(b, "method") = Str("tools/call")

isListTools(b) ==
  \/ Get(b, "type") = Str("list_tools")
  \/ Get(b, "method") = Str("tools/list")
  \/ Get(b, "method") = Str("list")

isInitialize(b) == Get(b, "method") = Str("initialize")

isNotification(b) ==
  Truthy(Get(b, "method")) /\ StartsWithNotifications(Get(b, "method"))

\* the branch of the if / else-if chain fetch takes for a decoded body
Branch(b, httpMethod) ==
  CASE ClassifyThrows(b) -> "Fault"
    [] isCallTool(b) -> "CallTool"
    [] isListTools(b) -> "ListTools"
    [] isInitialize(b) -> "Initialize"
    [] isNotification(b) -> "Notification"
    [] httpMethod = "OPTIONS" -> "Options"
    [] OTHER -> "Unsupported"

\* the legacy `tool` field not consulted
CallToolName_NoLegacy(b) ==
  LET params == Get(b, "params") IN
  Or(OptGet(params, "name"), Str(""))

\* params.name of callToolRequest
CallToolName(b) ==
  LET params == Get(b, "params") IN
  Or(Or(OptGet(params, "name"), OptGet(params, "tool")), Str(""))

\* the fallback order reversed: the legacy field first
CallToolArguments_LegacyFirst(b) ==
  LET params == Get(b, "params") IN
  Or(Or(OptGet(params, "parameters"), OptGet(params, "arguments")), EmptyObj)

\* params.arguments of callToolRequest
CallToolArguments(b) ==
  LET params == Get(b, "params") IN
  Or(Or(OptGet(params, "arguments"), OptGet(params, "parameters")), EmptyObj)

\* const callToolRequest = { method, params: { name, arguments, _meta } }
CallToolRequest(b) ==
  [name |-> CallToolName(b), arguments |-> CallToolArguments(b)]

\* the try block of the CallTool branch up to its first await; getChannels
\* is called with two arguments, so its `env` parameter is undefined
CallToolPlan(ctr, processEnv) ==
  IF ~Truthy(ctr.arguments)
  THEN Throw(<<"No arguments provided">>)
  ELSE ToolSwitch(ctr.name, ctr.arguments, Undef, processEnv)

\* result = { content: [{ type: "text", text: JSON.stringify(response) }] }
ToolResult(data) ==
  Lit(<< <<"content",
           Arr(<< Lit(<< <<"type", Str("text")>>,
                         <<"text", Stringify(data)>> >>) >>)>> >>)

\* an application-level error of the backend turned into the failure payload
CallToolSuccess_ErrorsFail(b, data) ==
  IF Truthy(Get(data, "ok"))
  THEN Response(StatusOk, JsonHeaders,
         Stringify(Lit(<<
           <<"jsonrpc", Str("2.0")>>,
           <<"id", IF Get(b, "id") # Undef THEN Get(b, "id") ELSE Num(0)>>,
           <<"result", ToolResult(data)>> >>)))
  ELSE Response(StatusOk, JsonHeaders,
         Stringify(ToolResult(Lit(<< <<"error", Get(data, "error")>> >>))))

CallToolSuccess(b, data) ==
  Response(StatusOk, JsonHeaders,
    Stringify(Lit(<<
      <<"jsonrpc", Str("2.0")>>,
      <<"id", IF Get(b, "id") # Undef THEN Get(b, "id") ELSE Num(0)>>,
      <<"result", ToolResult(data)>> >>)))

\* the catch block answering with an error status instead of the default
CallToolFailure_Status500(message) ==
  Response(StatusServerError, JsonHeaders,
    Stringify(ToolResult(Lit(<< <<"error", message>> >>))))

\* the catch block of the CallTool branch
CallToolFailure(message) ==
  Response(StatusOk, JsonHeaders,
    Stringify(ToolResult(Lit(<< <<"error", message>> >>))))

ListToolsResponse(b) ==
  Response(StatusOk, JsonHeaders,
    Stringify(Lit(<<
      <<"jsonrpc", Str("2.0")>>,
      <<"id", Or(Get(b, "id"), Num(0))>>,
      <<"result", Lit(<< <<"tools", ToolList>> >>)>> >>)))

\* the Initialize envelope defaulting its id as the ListTools branch does
InitializeResponse_DefaultZero(b) ==
  Response(StatusOk, JsonHeaders,
    Stringify(Lit(<<
      <<"jsonrpc", Str("2.0")>>,
      <<"id", Or(Get(b, "id"), Num(0))>>,
      <<"result", Lit(<<
         <<"protocolVersion", Str("2024-11-05")>>,
         <<"serverInfo", Lit(<< <<"name", Str("slack-mcp-remote")>>,
                                <<"version", Str("1.0.0")>> >>)>>,
         <<"capabilities", Lit(<< <<"tools", EmptyObj>> >>)>> >>)>> >>)))

InitializeResponse(b) ==
  Response(StatusOk, JsonHeaders,
    Stringify(Lit(<<
      <<"jsonrpc", Str("2.0")>>,
      <<"id", Get(b, "id")>>,
      <<"result", Lit(<<
         <<"protocolVersion", Str("2024-11-05")>>,
         <<"serverInfo", Lit(<< <<"name", Str("slack-mcp-remote")>>,
                                <<"version", Str("1.0.0")>> >>)>>,
         <<"capabilities", Lit(<< <<"tools", EmptyObj>> >>)>> >>)>> >>)))

NotificationResponse ==
  Response(StatusOk, JsonHeaders,
    Stringify(Lit(<< <<"jsonrpc", Str("2.0")>>, <<"result", Null>> >>)))

PreflightResponse == Response(StatusOk, PreflightHeaders, Null)

UnsupportedResponse(b) ==
  Response(StatusBadRequest, JsonHeaders,
    Stringify(Lit(<<
      <<"error", Txt(<<"Unsupported request type or missing handler">>)>>,
      <<"received", b>> >>)))

(***************************************************************************)
(* The inputs: process configuration, requests and backend outcomes.       *)
(***************************************************************************)
\* the longest pre-approved channel id list a configuration carries
MaxIds == 2

\* the id of the i-th pre-approved channel, a non-empty string
ChannelId(i) == [t |-> "string", id |-> i]

Slots == {1, 2}

HttpMethods == {"POST", "GET", "OPTIONS"}

\* the Worker's env bindings
Env(token, team, ids) ==
  Sparse(<< <<"SLACK_BOT_TOKEN", token>>, <<"SLACK_TEAM_ID", team>>,
            <<"SLACK_CHANNEL_IDS", ids>> >>)

IdLists == {Csv([i \in 1..n |-> ChannelId(i)]) : n \in 1..MaxIds}

Envs ==
  {Env(Str("xoxb-token"), Str("T0001"), ids) : ids \in {Undef} \cup IdLists}
    \cup {Env(Undef, Str("T0001"), Undef), Env(Str("xoxb-token"), Undef, Undef),
          Env(Undef, Undef, Csv(<<ChannelId(1)>>))}

\* process.env where the runtime defines `process`, undefined where it does not
ProcessEnvs == {Undef, Lit(<< <<"SLACK_TEAM_ID", Str("T0001")>> >>)}

Ids == {Undef, Num(0), Num(7), Null, Str(""), Bool(FALSE)}

Types == {Undef, Str("call_tool"), Str("list_tools"), Num(5)}

Methods ==
  {Undef, Str("tools/call"), Str("tools/list"), Str("list"), Str("initialize"),
   Str("notifications/initialized"), Str("resources/list"), Str(""), Num(5)}

Envelope(type, method, id, params) ==
  Sparse(<< <<"type", type>>, <<"method", method>>, <<"id", id>>,
            <<"params", params>> >>)

\* the argument mappings tried for a tool: each required parameter absent,
\* empty or given, and `limit` absent, under or over the maximum where the
\* tool takes one
TakesLimit(name) ==
  name \in {"slack_list_channels", "slack_get_users", "slack_get_channel_history"}

ArgMaps(name) ==
  { Obj([k \in {j \in DOMAIN f : f[j] # Undef} |-> f[k]]) :
      f \in { g \in [Required(name) \cup {"limit"} ->
                       {Undef, Str(""), Str("v"), Num(50), Num(300)}] :
                /\ g["limit"] \in
                     (IF TakesLimit(name) THEN {Undef, Num(50), Num(300)}
                      ELSE {Undef})
                /\ \A k \in Required(name) : g[k] \in {Undef, Str(""), Str("v")} } }

NameArgs ==
  UNION { {<<Str(n), a>> : a \in ArgMaps(n) \cup {Undef}} : n \in ToolNames }
    \cup { <<n, a>> : n \in {Undef, Str(""), Str("slack_bogus_tool")},
                      a \in {Undef, EmptyObj, Lit(<< <<"channel_id", Str("v")>> >>)} }

\* the two historical request shapes carrying a tool name and arguments
Modern(name, args, id) ==
  Envelope(Undef, Str("tools/call"), id,
           Sparse(<< <<"name", name>>, <<"arguments", args>> >>))

Legacy(name, args, id) ==
  Envelope(Str("call_tool"), Undef, id,
           Sparse(<< <<"tool", name>>, <<"parameters", args>> >>))

CallIds == {Undef, Num(7)}

PostArgs == Lit(<< <<"channel_id", Str("v")>>, <<"text", Str("v")>> >>)

ProfileArgs == Lit(<< <<"user_id", Str("v")>> >>)

\* every combination of absent, null, empty and given primary and legacy fields
MixedParams ==
  { Sparse(<< <<"name", name>>, <<"tool", tool>>, <<"arguments", arguments>>,
              <<"parameters", parameters>> >>) :
      name \in {Undef, Str(""), Str("slack_post_message")},
      tool \in {Undef, Str(""), Str("slack_get_user_profile")},
      arguments \in {Undef, Null, EmptyObj, PostArgs},
      parameters \in {Undef, Null, EmptyObj, ProfileArgs} }

Bodies ==
  {Null, Num(5), Str("hello"), Bool(TRUE), Arr(<<>>)}
    \cup {Envelope(type, method, id, Undef) :
            type \in Types, method \in Methods, id \in Ids}
    \cup {Modern(na[1], na[2], id) : na \in NameArgs, id \in CallIds}
    \cup {Legacy(na[1], na[2], id) : na \in NameArgs, id \in CallIds}
    \cup {Envelope(Undef, Str("tools/call"), Num(7), p) : p \in MixedParams}
    \cup {Envelope(Str("call_tool"), Undef, Num(7), p) : p \in {Null, Num(5)}}

\* request bodies: an empty body, a body that is not JSON, or a JSON text
RequestTexts == {Str(""), Str("not json")} \cup {Json(b) : b \in Bodies}

\* the requests served concurrently: one of each kind, and tool calls that
\* differ in tool, in request shape and in id
ConcurrentMethods == {"POST", "OPTIONS"}

ConcurrentTexts ==
  { Str("not json"),
    Json(Envelope(Undef, Str("tools/list"), Num(7), Undef)),
    Json(Envelope(Undef, Str("initialize"), Null, Undef)),
    Json(Envelope(Undef, Str("resources/list"), Num(0), Undef)),
    Json(Modern(Str("slack_post_message"), PostArgs, Num(7))),
    Json(Modern(Str("slack_post_message"), PostArgs, Undef)),
    Json(Legacy(Str("slack_list_channels"), EmptyObj, Undef)),
    Json(Modern(Str("slack_get_users"), EmptyObj, Num(7))) }

\* what a backend call can end in: a decoded reply, or a thrown failure
\* (fetch rejecting, response.json() rejecting a non-JSON reply)
Replies(req) ==
  IF req.api = "conversations.info"
  THEN { Lit(<< <<"ok", Bool(TRUE)>>,
                <<"channel", Lit(<< <<"id", req.params.f["channel"]>>,
                                    <<"is_archived", Bool(a)>> >>)>> >>) :
           a \in BOOLEAN }
         \cup { Lit(<< <<"ok", Bool(FALSE)>>, <<"error", Str("channel_not_found")>> >>) }
  ELSE { Lit(<< <<"ok", Bool(TRUE)>>, <<"api", Str(req.api)>> >>),
         Lit(<< <<"ok", Bool(FALSE)>>, <<"error", Str("channel_not_found")>> >>) }

Failures == {Txt(<<"fetch failed">>)}

Outcomes(req) ==
  {[kind |-> "reply", data |-> d] : d \in Replies(req)}
    \cup {[kind |-> "throw", error |-> e] : e \in Failures}

(***************************************************************************)
(* State.  env and processEnv are the process configuration, fixed for the *)
(* process lifetime.  Everything else is local to one fetch invocation,    *)
(* kept per request slot:                                                  *)
(*   pc          "idle", "text" (awaiting request.text()), "backend"       *)
(*               (awaiting a SlackClient call) or "done" (Response         *)
(*               returned)                                                 *)
(*   request     the HTTP method and body text received                    *)
(*   requestBody the decoded body, undefined until JSON.parse has returned *)
(*   branch      the branch of fetch that produced or will produce the     *)
(*               response                                                  *)
(*   callToolRequest  the normalized request the CallTool branch builds    *)
(*   pending     the backend request in flight                             *)
(*   loop        getChannels' loop over pre-approved ids: the ids, the     *)
(*               index of the lookup in flight and the channels collected  *)
(*   calls       the backend requests sent so far, each with its outcome   *)
(*               once it has one                                           *)
(*   response    the Response returned                                     *)
(*   returned    the value the registered CallTool handler returned, when  *)
(*               the invocation is one of that handler and not of fetch    *)
(***************************************************************************)
VARIABLES env, processEnv, pc, request, requestBody, branch, callToolRequest,
          pending, loop, calls, response, returned

vars == <<env, processEnv, pc, request, requestBody, branch, callToolRequest,
          pending, loop, calls, response, returned>>

NoCallTool == [name |-> Undef, arguments |-> Undef]

NoRequest == [method |-> "", text |-> Undef]

NoCall == [api |-> "", params |-> Undef]

\* the outcome of a backend request still in flight
Awaited == [kind |-> "pending"]

NoLoop == [ids |-> <<>>, i |-> 0, channels |-> <<>>]

Init ==
  /\ env \in Envs
  /\ processEnv \in ProcessEnvs
  /\ pc = [r \in Slots |-> "idle"]
  /\ request = [r \in Slots |-> NoRequest]
  /\ requestBody = [r \in Slots |-> Undef]
  /\ branch = [r \in Slots |-> "none"]
  /\ callToolRequest = [r \in Slots |-> NoCallTool]
  /\ pending = [r \in Slots |-> NoCall]
  /\ loop = [r \in Slots |-> NoLoop]
  /\ calls = [r \in Slots |-> <<>>]
  /\ response = [r \in Slots |-> NoResponse]
  /\ returned = [r \in Slots |-> Undef]

\* return new Response(...) from the branch br
Return(r, br, resp) ==
  /\ pc' = [pc EXCEPT ![r] = "done"]
  /\ branch' = [branch EXCEPT ![r] = br]
  /\ response' = [response EXCEPT ![r] = resp]
  /\ pending' = [pending EXCEPT ![r] = NoCall]
  /\ loop' = [loop EXCEPT ![r] = NoLoop]
  /\ UNCHANGED returned

\* await fetch(...) of a SlackClient method
Send(r, req, lp) ==
  /\ pc' = [pc EXCEPT ![r] = "backend"]
  /\ pending' = [pending EXCEPT ![r] = req]
  /\ loop' = [loop EXCEPT ![r] = lp]
  /\ calls' = [calls EXCEPT ![r] = Append(@, [req |-> req, outcome |-> Awaited])]
  /\ UNCHANGED <<response, returned>>

\* start the SlackClient call a tool switch decided on, or take its throw
Start(r, plan) ==
  CASE plan.kind = "throw" ->
         /\ Return(r, "CallTool", CallToolFailure(plan.error))
         /\ UNCHANGED calls
    [] plan.kind = "call" ->
         /\ Send(r, plan.req, NoLoop)
         /\ branch' = [branch EXCEPT ![r] = "CallTool"]
    [] plan.kind = "lookups" ->
         /\ Send(r, conversationsInfo(plan.ids[1]),
                 [ids |-> plan.ids, i |-> 1, channels |-> <<>>])
         /\ branch' = [branch EXCEPT ![r] = "CallTool"]

(***************************************************************************)
(* fetch, from its entry to `await request.text()`: a request arrives, the *)
(* environment is checked, the Server and SlackClient are constructed.     *)
(***************************************************************************)
Arrive(r) ==
  /\ pc[r] = "idle"
  /\ \E method \in HttpMethods, text \in RequestTexts :
       request' = [request EXCEPT ![r] = [method |-> method, text |-> text]]
  /\ UNCHANGED <<requestBody, callToolRequest, calls>>
  /\ IF EnvMissing(env)
     THEN Return(r, "ConfigError", ConfigErrorResponse(env))
     ELSE /\ pc' = [pc EXCEPT ![r] = "text"]
          /\ UNCHANGED <<branch, response, pending, loop, returned>>
  /\ UNCHANGED <<env, processEnv>>

(***************************************************************************)
(* fetch, from the body text to the first backend await or the Response:   *)
(* JSON.parse, the classification flags, the branch taken and, for         *)
(* CallTool, normalization and the tool switch.                            *)
(***************************************************************************)
Dispatch(r) ==
  /\ pc[r] = "text"
  /\ UNCHANGED <<env, processEnv, request>>
  /\ IF ~Parses(request[r].text)
     THEN /\ Return(r, "DecodeError", InvalidJsonResponse)
          /\ UNCHANGED <<requestBody, callToolRequest, calls>>
     ELSE LET b == Parse(request[r].text)
              br == Branch(b, request[r].method)
          IN /\ requestBody' = [requestBody EXCEPT ![r] = b]
             /\ callToolRequest' =
                  [callToolRequest EXCEPT
                     ![r] = IF br = "CallTool" THEN CallToolRequest(b) ELSE @]
             /\ CASE br = "CallTool" ->
                       Start(r, CallToolPlan(CallToolRequest(b), processEnv))
                  [] br = "Fault" ->
                       Return(r, br, InvalidFormatResponse) /\ UNCHANGED calls
                  [] br = "ListTools" ->
                       Return(r, br, ListToolsResponse(b)) /\ UNCHANGED calls
                  [] br = "Initialize" ->
                       Return(r, br, InitializeResponse(b)) /\ UNCHANGED calls
                  [] br = "Notification" ->
                       Return(r, br, NotificationResponse) /\ UNCHANGED calls
                  [] br = "Options" ->
                       Return(r, br, PreflightResponse) /\ UNCHANGED calls
                  [] OTHER ->
                       Return(r, br, UnsupportedResponse(b)) /\ UNCHANGED calls

(***************************************************************************)
(* The backend await resolves.  A thrown failure goes to the catch block.  *)
(* A reply is the result of a single-call method; in getChannels' loop it  *)
(* is kept when ok and not archived, and the next lookup is sent or the    *)
(* collected channels are returned.                                        *)
(***************************************************************************)
\* the loop keeping every channel the backend returned, archived or not
Collect_KeepsArchived(channels, data) ==
  IF /\ Truthy(Get(data, "ok"))
     /\ Truthy(Get(data, "channel"))
  THEN Append(channels, Get(data, "channel"))
  ELSE channels

\* if (data.ok && data.channel && !data.channel.is_archived) channels.push(...)
Collect(channels, data) ==
  IF /\ Truthy(Get(data, "ok"))
     /\ Truthy(Get(data, "channel"))
     /\ ~Truthy(Get(Get(data, "channel"), "is_archived"))
  THEN Append(channels, Get(data, "channel"))
  ELSE channels

ChannelsResult(channels) ==
  Lit(<< <<"ok", Bool(TRUE)>>, <<"channels", Arr(channels)>>,
         <<"response_metadata", Lit(<< <<"next_cursor", Str("")>> >>)>> >>)

Resolved(log, o) ==
  [log EXCEPT ![Len(log)] = [req |-> @.req, outcome |-> o]]

\* the registered CallTool handler: catch (error) { return { content: ... } }
HandlerFailure(message) == ToolResult(Lit(<< <<"error", message>> >>))

\* the registered CallTool handler returns value to its caller
HandlerReturn(r, value) ==
  /\ pc' = [pc EXCEPT ![r] = "done"]
  /\ branch' = [branch EXCEPT ![r] = "Handler"]
  /\ returned' = [returned EXCEPT ![r] = value]
  /\ pending' = [pending EXCEPT ![r] = NoCall]
  /\ loop' = [loop EXCEPT ![r] = NoLoop]
  /\ UNCHANGED response

\* the success envelope built from a request body kept in one variable that
\* all invocations of fetch share
Succeed_SharedBody(r, data) ==
  IF branch[r] = "Handler"
  THEN HandlerReturn(r, ToolResult(data))
  ELSE Return(r, "CallTool", CallToolSuccess(requestBody[1], data))

\* the SlackClient method returned data to the caller that awaits it: the
\* CallTool branch of fetch or the registered CallTool handler
Succeed(r, data) ==
  IF branch[r] = "Handler"
  THEN HandlerReturn(r, ToolResult(data))
  ELSE Return(r, "CallTool", CallToolSuccess(requestBody[r], data))

\* the SlackClient method threw: the catch block of the caller
Fail(r, message) ==
  IF branch[r] = "Handler"
  THEN HandlerReturn(r, HandlerFailure(message))
  ELSE Return(r, "CallTool", CallToolFailure(message))

Resolve(r, o) ==
  /\ UNCHANGED <<env, processEnv, request, requestBody, callToolRequest>>
  /\ IF o.kind = "throw"
     THEN /\ calls' = [calls EXCEPT ![r] = Resolved(@, o)]
          /\ Fail(r, o.error)
     ELSE IF loop[r].i = 0
     THEN /\ calls' = [calls EXCEPT ![r] = Resolved(@, o)]
          /\ Succeed(r, o.data)
     ELSE LET channels == Collect(loop[r].channels, o.data) IN
          IF loop[r].i < Len(loop[r].ids)
          THEN LET req == conversationsInfo(loop[r].ids[loop[r].i + 1]) IN
               /\ calls' = [calls EXCEPT
                              ![r] = Append(Resolved(@, o),
                                            [req |-> req, outcome |-> Awaited])]
               /\ pending' = [pending EXCEPT ![r] = req]
               /\ loop' = [loop EXCEPT ![r] = [ids |-> @.ids, i |-> @.i + 1,
                                               channels |-> channels]]
               /\ UNCHANGED <<pc, branch, response, returned>>
          ELSE /\ calls' = [calls EXCEPT ![r] = Resolved(@, o)]
               /\ Succeed(r, ChannelsResult(channels))

BackendReply(r) ==
  /\ pc[r] = "backend"
  /\ \E o \in Outcomes(pending[r]) : Resolve(r, o)

\* the Response has been delivered: the invocation and its locals are gone
Finish(r) ==
  /\ pc[r] = "done"
  /\ pc' = [pc EXCEPT ![r] = "idle"]
  /\ request' = [request EXCEPT ![r] = NoRequest]
  /\ requestBody' = [requestBody EXCEPT ![r] = Undef]
  /\ branch' = [branch EXCEPT ![r] = "none"]
  /\ callToolRequest' = [callToolRequest EXCEPT ![r] = NoCallTool]
  /\ pending' = [pending EXCEPT ![r] = NoCall]
  /\ loop' = [loop EXCEPT ![r] = NoLoop]
  /\ calls' = [calls EXCEPT ![r] = <<>>]
  /\ response' = [response EXCEPT ![r] = NoResponse]
  /\ returned' = [returned EXCEPT ![r] = Undef]
  /\ UNCHANGED <<env, processEnv>>

\* one request at a time, served in slot 1
Next ==
  \/ Arrive(1)
  \/ Dispatch(1)
  \/ BackendReply(1)
  \/ Finish(1)

Spec == Init /\ [][Next]_vars

(***************************************************************************)
(* Two requests served concurrently: the same tool call arrives once in    *)
(* the legacy shape (slot 1) and once in the modern shape (slot 2), and    *)
(* the two invocations of fetch interleave at their awaits.                *)
(***************************************************************************)
ArriveTwins ==
  /\ \A r \in Slots : pc[r] = "idle"
  /\ \E na \in NameArgs, id \in CallIds :
       request' = [r \in Slots |->
                     [method |-> "POST",
                      text |-> IF r = 1 THEN Json(Legacy(na[1], na[2], id))
                               ELSE Json(Modern(na[1], na[2], id))]]
  /\ UNCHANGED <<requestBody, callToolRequest, calls, env, processEnv>>
  /\ IF EnvMissing(env)
     THEN /\ pc' = [r \in Slots |-> "done"]
          /\ branch' = [r \in Slots |-> "ConfigError"]
          /\ response' = [r \in Slots |-> ConfigErrorResponse(env)]
          /\ UNCHANGED <<pending, loop, returned>>
     ELSE /\ pc' = [r \in Slots |-> "text"]
          /\ UNCHANGED <<branch, response, pending, loop, returned>>

NextPair ==
  \/ ArriveTwins
  \/ \E r \in Slots : Dispatch(r)
  \/ \E r \in Slots : BackendReply(r)
  \/ \E r \in Slots : Finish(r)

SpecPair == Init /\ [][NextPair]_vars

(***************************************************************************)
(* The CallTool handler fetch registers on the Server, invoked the way the *)
(* Server invokes it: with a request whose params carry a tool name and    *)
(* optional arguments.  Its switch is the one of fetch's CallTool branch   *)
(* except that getChannels is given `env`, so this is the caller under     *)
(* which getChannels runs its loop over the pre-approved ids.              *)
(***************************************************************************)
\* the requests the CallToolRequestSchema admits: the name is a string
HandlerRequests == {na \in NameArgs : na[1].t = "string"}

\* the try block of the registered handler up to its first await
HandlerPlan(name, args) ==
  IF ~Truthy(args)
  THEN Throw(<<"No arguments provided">>)
  ELSE ToolSwitch(name, args, env, processEnv)

CallHandler(r) ==
  /\ pc[r] = "idle"
  /\ ~EnvMissing(env)
  /\ UNCHANGED <<env, processEnv, request, requestBody>>
  /\ \E na \in HandlerRequests :
       /\ callToolRequest' =
            [callToolRequest EXCEPT ![r] = [name |-> na[1], arguments |-> na[2]]]
       /\ LET plan == HandlerPlan(na[1], na[2]) IN
          CASE plan.kind = "throw" ->
                 /\ HandlerReturn(r, HandlerFailure(plan.error))
                 /\ UNCHANGED calls
            [] plan.kind = "call" ->
                 /\ Send(r, plan.req, NoLoop)
                 /\ branch' = [branch EXCEPT ![r] = "Handler"]
            [] plan.kind = "lookups" ->
                 /\ Send(r, conversationsInfo(plan.ids[1]),
                         [ids |-> plan.ids, i |-> 1, channels |-> <<>>])
                 /\ branch' = [branch EXCEPT ![r] = "Handler"]

NextHandler ==
  \/ CallHandler(1)
  \/ BackendReply(1)
  \/ Finish(1)

SpecHandler == Init /\ [][NextHandler]_vars

(***************************************************************************)
(* Requests served concurrently: each slot is an invocation of fetch, and  *)
(* the invocations interleave at their awaits in any order.                *)
(***************************************************************************)
ArriveConcurrent(r) ==
  /\ pc[r] = "idle"
  /\ \E method \in ConcurrentMethods, text \in ConcurrentTexts :
       request' = [request EXCEPT ![r] = [method |-> method, text |-> text]]
  /\ UNCHANGED <<requestBody, callToolRequest, calls>>
  /\ IF EnvMissing(env)
     THEN Return(r, "ConfigError", ConfigErrorResponse(env))
     ELSE /\ pc' = [pc EXCEPT ![r] = "text"]
          /\ UNCHANGED <<branch, response, pending, loop, returned>>
  /\ UNCHANGED <<env, processEnv>>

NextConcurrent ==
  \/ \E r \in Slots : ArriveConcurrent(r)
  \/ \E r \in Slots : Dispatch(r)
  \/ \E r \in Slots : BackendReply(r)
  \/ \E r \in Slots : Finish(r)

SpecConcurrent == Init /\ [][NextConcurrent]_vars

(***************************************************************************)
(* Properties.                                                             *)
(***************************************************************************)
Done(r) == pc[r] = "done"

\* the JSON value a response body is the text of
BodyJson(r) == response[r].body.json

HasJsonBody(r) == response[r].body # Null /\ Parses(response[r].body)

\* j is { content: [ { type: "text", text: <JSON text of inner> } ] }
IsToolPayload(j, inner) ==
  /\ j.t = "object"
  /\ DOMAIN j.f = {"content"}
  /\ j.f["content"].t = "array"
  /\ Len(j.f["content"].a) = 1
  /\ j.f["content"].a[1] =
       Obj([k \in {"type", "text"} |->
              IF k = "type" THEN Str("text") ELSE Json(inner)])

\* j is the tool-failure payload carrying the message text msg
IsFailurePayload(j, msg) == IsToolPayload(j, Obj([k \in {"error"} |-> msg]))

\* j is the tool-failure payload carrying some message text
IsSomeFailurePayload(j) ==
  /\ j.t = "object"
  /\ DOMAIN j.f = {"content"}
  /\ j.f["content"].t = "array"
  /\ Len(j.f["content"].a) = 1
  /\ LET el == j.f["content"].a[1] IN
       /\ el.t = "object"
       /\ DOMAIN el.f = {"type", "text"}
       /\ el.f["type"] = Str("text")
       /\ Parses(el.f["text"])
       /\ el.f["text"].json.t = "object"
       /\ DOMAIN el.f["text"].json.f = {"error"}
       /\ el.f["text"].json.f["error"].t = "string"

\* the message text inside a tool-failure payload
FailureMessage(j) == j.f["content"].a[1].f["text"].json.f["error"]

LastCall(r) == calls[r][Len(calls[r])]

BackendThrew(r) ==
  calls[r] # <<>> /\ LastCall(r).outcome.kind = "throw"

\* C1: every request that reaches the CallTool branch ends with HTTP 200 and
\* a JSON body, whatever the tool name, the arguments and the backend's
\* outcome; when the backend call throws the body is the tool-failure payload
\* carrying the thrown message, and when the handler throws before any
\* backend call the body is a tool-failure payload.  Until it ends, such a
\* request is waiting for the backend, never faulted.
C1_CallToolAlways200 ==
  \A r \in Slots :
    branch[r] = "CallTool" =>
      /\ pc[r] \in {"backend", "done"}
      /\ Done(r) =>
           /\ response[r].status = 200
           /\ "Content-Type" \in response[r].headers
           /\ HasJsonBody(r)
           /\ BackendThrew(r) => IsFailurePayload(BodyJson(r), LastCall(r).outcome.error)
           /\ calls[r] = <<>> => IsSomeFailurePayload(BodyJson(r))

C1_Witness ==
  \E r \in Slots :
    /\ Done(r) /\ branch[r] = "CallTool" /\ BackendThrew(r)
    /\ response[r].status = 200
    /\ callToolRequest[r].name = Str("slack_post_message")

\* C2: a CallTool request naming a registered tool with every required
\* argument given ends with an envelope whose id is the request's id, or 0
\* when the request has none, for every outcome of the backend call.
C2_EnvelopeEchoesId ==
  \A r \in Slots :
    ( /\ Done(r) /\ branch[r] = "CallTool"
      /\ \E n \in ToolNames :
           /\ callToolRequest[r].name = Str(n)
           /\ \A k \in Required(n) :
                Get(callToolRequest[r].arguments, k) \notin {Undef, Str("")} )
    => /\ HasJsonBody(r)
       /\ Get(BodyJson(r), "id") =
            (IF Get(requestBody[r], "id") # Undef
             THEN Get(requestBody[r], "id") ELSE Num(0))

\* the words of a message text
Words(msg) == IF "w" \in DOMAIN msg THEN {msg.w[i] : i \in DOMAIN msg.w} ELSE {}

\* C3: for each tool that declares required parameters, a CallTool request in
\* which a required parameter is absent or empty sends nothing to the backend
\* and ends with HTTP 200 and the tool-failure payload, whose message names
\* every missing parameter.
C3_MissingRequiredArgument ==
  \A r \in Slots : \A n \in ToolNames :
    ( /\ branch[r] = "CallTool"
      /\ callToolRequest[r].name = Str(n)
      /\ \E k \in Required(n) :
           Get(callToolRequest[r].arguments, k) \in {Undef, Str("")} )
    => /\ calls[r] = <<>>
       /\ Done(r)
       /\ response[r].status = 200
       /\ IsSomeFailurePayload(BodyJson(r))
       /\ \A k \in Required(n) :
            Get(callToolRequest[r].arguments, k) \in {Undef, Str("")}
              => k \in Words(FailureMessage(BodyJson(r)))

C3_Witness ==
  \E r \in Slots :
    /\ Done(r) /\ branch[r] = "CallTool"
    /\ callToolRequest[r].name = Str("slack_post_message")
    /\ Get(callToolRequest[r].arguments, "channel_id") = Str("v")
    /\ Get(callToolRequest[r].arguments, "text") = Str("")
    /\ calls[r] = <<>>
    /\ "text" \in Words(FailureMessage(BodyJson(r)))

\* the params object of a decoded body
Params(r) == Get(requestBody[r], "params")

\* a field that is absent (or null)
Absent(v) == v \in {Undef, Null}

\* a field that is absent, or present and empty
Empty(v) == Absent(v) \/ v \in {Str(""), EmptyObj}

\* C5 as stated: in normalization the primary field wins if present and
\* non-empty and the legacy field is used otherwise, for the name and for the
\* arguments, an empty mapping counting as empty.
C5_PrimaryWinsIfNonEmpty ==
  \A r \in Slots :
    branch[r] = "CallTool" =>
      /\ callToolRequest[r].name =
           (IF ~Empty(OptGet(Params(r), "name")) THEN OptGet(Params(r), "name")
            ELSE IF ~Empty(OptGet(Params(r), "tool")) THEN OptGet(Params(r), "tool")
            ELSE Str(""))
      /\ callToolRequest[r].arguments =
           (IF ~Empty(OptGet(Params(r), "arguments"))
            THEN OptGet(Params(r), "arguments")
            ELSE IF ~Empty(OptGet(Params(r), "parameters"))
            THEN OptGet(Params(r), "parameters")
            ELSE EmptyObj)

\* C5 amended: the name is params.name unless absent or empty, then
\* params.tool; the arguments are params.arguments whenever that field holds
\* a mapping, the empty mapping included, and params.parameters only when
\* params.arguments is absent or null.
C5_PrimaryWinsIfPresent ==
  \A r \in Slots :
    branch[r] = "CallTool" =>
      /\ callToolRequest[r].name =
           (IF ~Empty(OptGet(Params(r), "name")) THEN OptGet(Params(r), "name")
            ELSE IF ~Empty(OptGet(Params(r), "tool")) THEN OptGet(Params(r), "tool")
            ELSE Str(""))
      /\ callToolRequest[r].arguments =
           (IF ~Absent(OptGet(Params(r), "arguments"))
            THEN OptGet(Params(r), "arguments")
            ELSE IF ~Absent(OptGet(Params(r), "parameters"))
            THEN OptGet(Params(r), "parameters")
            ELSE EmptyObj)

C5_Witness ==
  \E r \in Slots :
    /\ Done(r) /\ branch[r] = "CallTool"
    /\ OptGet(Params(r), "name") = Str("")
    /\ OptGet(Params(r), "tool") = Str("slack_get_user_profile")
    /\ OptGet(Params(r), "arguments") = EmptyObj
    /\ OptGet(Params(r), "parameters") = ProfileArgs
    /\ callToolRequest[r].name = Str("slack_get_user_profile")
    /\ callToolRequest[r].arguments = EmptyObj

ConfigPresent == ~EnvMissing(env)

\* C6: with the configuration present, every OPTIONS request gets the
\* preflight response (cross-origin headers only, empty body) whatever its
\* body, without the body being decoded or classified and without a backend
\* call.
C6_OptionsShortCircuits ==
  \A r \in Slots :
    (ConfigPresent /\ request[r].method = "OPTIONS" /\ pc[r] \in {"backend", "done"})
    => /\ Done(r)
       /\ response[r].status = 200
       /\ response[r].headers = PreflightHeaders
       /\ response[r].body = Null
       /\ requestBody[r] = Undef
       /\ calls[r] = <<>>

\* the decoded reply of the last backend call is an application-level error
BackendRefused(r) ==
  /\ calls[r] # <<>>
  /\ LastCall(r).outcome.kind = "reply"
  /\ Get(LastCall(r).outcome.data, "ok") = Bool(FALSE)
  /\ Get(LastCall(r).outcome.data, "error") # Undef

\* C7 as stated: when the backend answers the call with ok = false and an
\* error text, the request ends with the tool-failure payload carrying that
\* text, and the call is made once.
C7_BackendErrorIsFailurePayload ==
  \A r \in Slots :
    (Done(r) /\ branch[r] = "CallTool" /\ BackendRefused(r))
    => /\ IsFailurePayload(BodyJson(r), Get(LastCall(r).outcome.data, "error"))
       /\ Len(calls[r]) = 1

\* C7 amended: when the backend answers the call with ok = false and an
\* error text, the request ends with HTTP 200 and the success envelope (id
\* echoed, 0 when absent) whose result is the tool payload holding the JSON
\* text of the backend's reply, unchanged; the call is made once.
C7_BackendErrorPassedThrough ==
  \A r \in Slots :
    (Done(r) /\ branch[r] = "CallTool" /\ BackendRefused(r))
    => /\ response[r].status = 200
       /\ HasJsonBody(r)
       /\ DOMAIN BodyJson(r).f = {"jsonrpc", "id", "result"}
       /\ Get(BodyJson(r), "id") =
            (IF Get(requestBody[r], "id") # Undef
             THEN Get(requestBody[r], "id") ELSE Num(0))
       /\ IsToolPayload(Get(BodyJson(r), "result"), LastCall(r).outcome.data)
       /\ Len(calls[r]) = 1

C7_Witness ==
  \E r \in Slots :
    /\ Done(r) /\ branch[r] = "CallTool" /\ BackendRefused(r)
    /\ callToolRequest[r].name = Str("slack_post_message")
    /\ LastCall(r).req.api = "chat.postMessage"
    /\ Get(BodyJson(r), "result") # Undef

\* the backend requests a finished request has sent, in order
Sent(r) == [i \in DOMAIN calls[r] |-> calls[r][i].req]

AllReplied(r) == \A i \in DOMAIN calls[r] : calls[r][i].outcome.kind = "reply"

\* C8: a `list channels` request served by fetch performs one lookup per
\* configured id, in order, when the pre-approved id list is configured, and
\* the single paginated listing call when it is not.
C8_ListChannelsUsesPreapprovedIds ==
  \A r \in Slots :
    ( /\ Done(r) /\ branch[r] = "CallTool" /\ AllReplied(r)
      /\ callToolRequest[r].name = Str("slack_list_channels") )
    => IF Truthy(Get(env, "SLACK_CHANNEL_IDS"))
       THEN Sent(r) = [i \in DOMAIN SplitIds(Get(env, "SLACK_CHANNEL_IDS")) |->
                         conversationsInfo(SplitIds(Get(env, "SLACK_CHANNEL_IDS"))[i])]
       ELSE Len(calls[r]) = 1 /\ calls[r][1].req.api = "conversations.list"

\* the kind the classification order gives a decoded body
KindByOrder(b) ==
  CASE Get(b, "method") = Str("tools/call") \/ Get(b, "type") = Str("call_tool")
         -> "CallTool"
    [] Get(b, "method") \in {Str("tools/list"), Str("list")}
         \/ Get(b, "type") = Str("list_tools") -> "ListTools"
    [] Get(b, "method") = Str("initialize") -> "Initialize"
    [] StartsWithNotifications(Get(b, "method")) -> "Notification"
    [] OTHER -> "Unsupported"

Decoded(r) == Done(r) /\ ConfigPresent /\ Parses(request[r].text)

\* C9: every request whose body is valid JSON of any type and matches none
\* of the CallTool, ListTools, Initialize and Notification classifications is
\* answered with HTTP 400 and an error body echoing the decoded request.
C9_UnsupportedEchoesRequest ==
  \A r \in Slots :
    ( /\ Decoded(r) /\ request[r].method # "OPTIONS"
      /\ KindByOrder(Parse(request[r].text)) = "Unsupported" )
    => /\ response[r].status = 400
       /\ HasJsonBody(r)
       /\ Get(BodyJson(r), "received") = Parse(request[r].text)

\* C10: every decoded object body that matches one of the CallTool,
\* ListTools, Initialize and Notification classifications is handled as the
\* first kind it matches in that order, whatever its other fields.
C10_ClassificationOrder ==
  \A r \in Slots :
    ( /\ Decoded(r) /\ request[r].method # "OPTIONS"
      /\ Parse(request[r].text).t = "object"
      /\ KindByOrder(Parse(request[r].text)) # "Unsupported" )
    => branch[r] = KindByOrder(Parse(request[r].text))

\* b1 is a legacy-shaped and b2 a modern-shaped CallTool body with the same
\* id, tool name and arguments
AreTwins(b1, b2) ==
  /\ b1.t = "object" /\ b2.t = "object"
  /\ Get(b1, "type") = Str("call_tool") /\ Get(b1, "method") = Undef
  /\ Get(b2, "method") = Str("tools/call") /\ Get(b2, "type") = Undef
  /\ Get(b1, "id") = Get(b2, "id")
  /\ Get(b1, "params").t = "object" /\ Get(b2, "params").t = "object"
  /\ DOMAIN Get(b1, "params").f \subseteq {"tool", "parameters"}
  /\ DOMAIN Get(b2, "params").f \subseteq {"name", "arguments"}
  /\ Get(Get(b1, "params"), "tool") = Get(Get(b2, "params"), "name")
  /\ Get(Get(b1, "params"), "parameters") = Get(Get(b2, "params"), "arguments")

Dispatched(r) == pc[r] \in {"backend", "done"}

OutcomesOf(r) == [i \in DOMAIN calls[r] |-> calls[r][i].outcome]

\* C4: a legacy-shaped and a modern-shaped CallTool request carrying the same
\* name and arguments are dispatched alike: both send the same backend
\* request or both send none, and given the same backend outcome both return
\* the same response.
C4_FormatIndependence ==
  ( /\ Dispatched(1) /\ Dispatched(2) /\ ConfigPresent
    /\ AreTwins(requestBody[1], requestBody[2]) )
  => /\ branch[1] = "CallTool" /\ branch[2] = "CallTool"
     /\ callToolRequest[1] = callToolRequest[2]
     /\ Sent(1) = Sent(2)
     /\ (Done(1) /\ Done(2) /\ OutcomesOf(1) = OutcomesOf(2))
          => response[1] = response[2]

C4_Witness ==
  /\ Done(1) /\ Done(2)
  /\ AreTwins(requestBody[1], requestBody[2])
  /\ callToolRequest[1].name = Str("slack_reply_to_thread")
  /\ Len(calls[1]) = 1 /\ OutcomesOf(1) = OutcomesOf(2)
  /\ calls[1][1].outcome.kind = "reply"
  /\ response[1] = response[2]
  /\ response[1].status = 200

\* the id the claims expect in a response: the request's id when it carries
\* one, else dflt
IdOrDefault(b, dflt) == IF Get(b, "id") # Undef THEN Get(b, "id") ELSE dflt

\* C11: every ListTools request is answered with HTTP 200 and an envelope
\* whose id is the request's id whenever the request carries one (0, null,
\* false and the empty string included) and 0 only when it carries none, and
\* whose result lists the eight tool descriptors in declaration order.
C11_ListToolsEchoesId ==
  \A r \in Slots :
    (Done(r) /\ branch[r] = "ListTools")
    => /\ response[r].status = 200
       /\ HasJsonBody(r)
       /\ Get(BodyJson(r), "id") = IdOrDefault(requestBody[r], Num(0))
       /\ Get(Get(BodyJson(r), "result"), "tools") = Clean(ToolList)
       /\ Len(ToolList.a) = 8
       /\ [i \in 1..8 |-> Get(ToolList.a[i], "name")] =
            <<Str("slack_list_channels"), Str("slack_post_message"),
              Str("slack_reply_to_thread"), Str("slack_add_reaction"),
              Str("slack_get_channel_history"), Str("slack_get_thread_replies"),
              Str("slack_get_users"), Str("slack_get_user_profile")>>

\* C12: every Initialize request is answered with HTTP 200 and an envelope
\* whose id is exactly the request's id (0 stays 0, null stays null, false
\* and the empty string stay as they are); when the request has no id the
\* envelope has no id field.
C12_InitializeRoundTrip ==
  \A r \in Slots :
    (Done(r) /\ branch[r] = "Initialize")
    => /\ response[r].status = 200
       /\ HasJsonBody(r)
       /\ BodyJson(r).t = "object"
       /\ (("id" \in DOMAIN BodyJson(r).f) <=> ("id" \in DOMAIN requestBody[r].f))
       /\ Get(BodyJson(r), "id") = Get(requestBody[r], "id")

C12_Witness ==
  \E r \in Slots :
    /\ Done(r) /\ branch[r] = "Initialize"
    /\ "id" \notin DOMAIN requestBody[r].f
    /\ DOMAIN BodyJson(r).f = {"jsonrpc", "result"}

\* the bot token or the team id is absent from the environment, or empty
CredentialMissing ==
  \E k \in {"SLACK_BOT_TOKEN", "SLACK_TEAM_ID"} : Empty(Get(env, k))

\* C13: when the bot token or the team id is missing from the environment,
\* every request, whatever its HTTP method (OPTIONS included) and its body,
\* is answered with HTTP 500 as soon as it arrives: its body is never
\* decoded, it is never classified or normalized, and nothing is sent to the
\* backend.
C13_ConfigErrorFirst ==
  CredentialMissing =>
    \A r \in Slots :
      /\ pc[r] \in {"idle", "done"}
      /\ requestBody[r] = Undef
      /\ callToolRequest[r] = NoCallTool
      /\ calls[r] = <<>>
      /\ pending[r] = NoCall
      /\ Done(r) =>
           /\ branch[r] = "ConfigError"
           /\ response[r].status = 500
           /\ HasJsonBody(r)
           /\ Get(BodyJson(r), "error") # Undef

C13_Witness ==
  \E r \in Slots :
    /\ Done(r)
    /\ Truthy(Get(env, "SLACK_BOT_TOKEN")) /\ ~Truthy(Get(env, "SLACK_TEAM_ID"))
    /\ request[r].method = "OPTIONS"
    /\ Parses(request[r].text)
    /\ KindByOrder(Parse(request[r].text)) = "CallTool"
    /\ response[r].status = 500
    /\ requestBody[r] = Undef

\* the pre-approved channel ids of the configuration, in list order
ApprovedIds == SplitIds(Get(env, "SLACK_CHANNEL_IDS"))

\* r serves a channel listing run with the pre-approved list
ListsApproved(r) ==
  /\ branch[r] = "Handler"
  /\ callToolRequest[r].name = Str("slack_list_channels")
  /\ Truthy(callToolRequest[r].arguments)
  /\ Truthy(Get(env, "SLACK_CHANNEL_IDS"))

\* the lookup was answered with a channel that is not archived
Listed(c) ==
  /\ c.outcome.kind = "reply"
  /\ Get(c.outcome.data, "ok") = Bool(TRUE)
  /\ Get(Get(c.outcome.data, "channel"), "is_archived") = Bool(FALSE)

\* the channels of the lookups that were answered so, in the order sent
ListedChannels(log) ==
  LET kept == SelectSeq(log, Listed)
  IN [i \in DOMAIN kept |-> Get(kept[i].outcome.data, "channel")]

ServedAlone(e, pe, method, text, outs) ==
  IF EnvMissing(e) THEN ConfigErrorResponse(e)
  ELSE IF ~Parses(text) THEN InvalidJsonResponse
  ELSE LET b == Parse(text)
           br == Branch(b, method)
           plan == CallToolPlan(CallToolRequest(b), pe)
       IN CASE br = "Fault" -> InvalidFormatResponse
            [] br = "ListTools" -> ListToolsResponse(b)
            [] br = "Initialize" -> InitializeResponse(b)
            [] br = "Notification" -> NotificationResponse
            [] br = "Options" -> PreflightResponse
            [] br = "Unsupported" -> UnsupportedResponse(b)
            [] br = "CallTool" /\ plan.kind = "throw" -> CallToolFailure(plan.error)
            [] br = "CallTool" /\ plan.kind = "call" /\ Len(outs) = 1 ->
                 IF outs[1].kind = "throw" THEN CallToolFailure(outs[1].error)
                 ELSE CallToolSuccess(b, outs[1].data)
            [] OTHER -> NoResponse

\* the backend requests fetch sends for a request served on its own
SentAlone(e, pe, method, text) ==
  IF EnvMissing(e) \/ ~Parses(text) THEN <<>>
  ELSE LET b == Parse(text)
           plan == CallToolPlan(CallToolRequest(b), pe)
       IN IF Branch(b, method) = "CallTool" /\ plan.kind = "call"
          THEN <<plan.req>> ELSE <<>>

\* C15: in every interleaving of the steps of concurrently served requests,
\* each request sends the backend requests it would send served alone and
\* gets the response it would get served alone, given its body, the
\* configuration and the backend's answers to its own calls; a ListTools
\* response lists the same tool registry whatever other requests are being
\* or have been served.
C15_RequestsIndependent ==
  \A r \in Slots :
    /\ Dispatched(r) =>
         Sent(r) = SentAlone(env, processEnv, request[r].method, request[r].text)
    /\ Done(r) =>
         response[r] = ServedAlone(env, processEnv, request[r].method,
                                   request[r].text, OutcomesOf(r))
    /\ (Done(r) /\ branch[r] = "ListTools") =>
         Get(Get(BodyJson(r), "result"), "tools") = Clean(ToolList)

C15_Witness ==
  /\ Done(1) /\ Done(2)
  /\ request[1].text = Json(Modern(Str("slack_post_message"), PostArgs, Num(7)))
  /\ request[2].text = Json(Modern(Str("slack_post_message"), PostArgs, Undef))
  /\ Len(calls[1]) = 1 /\ Len(calls[2]) = 1
  /\ calls[1][1].outcome.kind = "throw"
  /\ calls[2][1].outcome.kind = "reply"
  /\ Get(BodyJson(2), "id") = Num(0)
  /\ response[1] # response[2]

====
